---- MODULE Spec2Model ----
(***************************************************************************)
(* Model of ml_integration/RNNAEAlignment.py: class Alignment.             *)
(*                                                                         *)
(* A DataFrame is a record [columns, rows]; rows is a sequence of          *)
(* [idx, c] with idx the index label and c the sequence of cells, one per  *)
(* column.  A cell is [tag, num, den]: tag "nan" is a missing value,       *)
(* tag "val" is the number num/den, tag "knn" is a value produced by       *)
(* sklearn's KNNImputer (the imputed number itself is not modelled).       *)
(* Python positions are 0-based; TLA+ sequences are 1-based.               *)
(***************************************************************************)
EXTENDS Integers, Sequences, FiniteSets, TLC

\* ------------------------------------------------------------------ bounds
MaxIdx == 3          \* index labels of the inputs are drawn from 0..MaxIdx
MaxWindow == 3       \* parameter['window_size'] is drawn from 1..MaxWindow
MaxBatch == 2        \* parameter['batch_size'] is drawn from 1..MaxBatch
MaxEmb == 2          \* parameter['emb_dim'] is drawn from 1..MaxEmb
MaxNeighbors == 2    \* parameter['n_neighbors'] is drawn from 1..MaxNeighbors
MaxRows == 4         \* rows of the table handed to get_loaders on its own
MaxIter == 2         \* iterations of one DataLoader that are recorded

IdxDom == 0..MaxIdx

\* ------------------------------------------------------------- sequences
Min2(a, b) == IF a <= b THEN a ELSE b
Max2(a, b) == IF a >= b THEN a ELSE b

SetMin(S) == CHOOSE m \in S : \A y \in S : m <= y
SetMax(S) == CHOOSE m \in S : \A y \in S : m >= y

RECURSIVE SortedSeq(_)
SortedSeq(S) == IF S = {} THEN <<>>
                ELSE <<SetMin(S)>> \o SortedSeq(S \ {SetMin(S)})

Range(s) == {s[k] : k \in 1..Len(s)}

\* Python s[start:stop] with step 1: negative positions count from the end,
\* positions are clipped to [0, len], an empty range yields an empty result.
PyNorm(k, n) == IF k < 0 THEN Max2(k + n, 0) ELSE Min2(k, n)
PySlice(s, start, stop) ==
  LET lo == PyNorm(start, Len(s))
      hi == PyNorm(stop, Len(s))
  IN  IF hi > lo THEN SubSeq(s, lo + 1, hi) ELSE <<>>
PySliceFrom(s, start) == PySlice(s, start, Len(s))

\* ----------------------------------------------------------------- cells
NaN == [tag |-> "nan", num |-> 0, den |-> 1]
Num(v) == [tag |-> "val", num |-> v, den |-> 1]
Frac(n, d) == [tag |-> "val", num |-> n, den |-> d]
KnnValue == [tag |-> "knn", num |-> 0, den |-> 1]
IsNaN(cell) == cell.tag = "nan"

\* ---------------------------------------------------------------- inputs
\* An input table with the index labels S, sorted ascending, and one column
\* named col; its cell at label t holds the number base + t.
InputTable(S, col, base) ==
  [columns |-> <<col>>,
   rows |-> [k \in 1..Cardinality(S) |->
               [idx |-> SortedSeq(S)[k], c |-> <<Num(base + SortedSeq(S)[k])>>]]]

IndexSets == (SUBSET IdxDom) \ {{}}

Index(df) == [k \in 1..Len(df.rows) |-> df.rows[k].idx]
IndexSet(df) == Range(Index(df))
NRows(df) == Len(df.rows)

ColumnCells(df, j) == [k \in 1..NRows(df) |-> df.rows[k].c[j]]

\* Python's None, and a returned DataFrame.
None == [some |-> FALSE, df |-> [columns |-> <<>>, rows |-> <<>>]]
Some(df) == [some |-> TRUE, df |-> df]

\* ---------------------------------------------------------------- pandas
\* The labels of pd.concat([x1, x2], axis=1, join='outer'): the union of the
\* two indexes.  pandas sorts the union or keeps the order of first
\* appearance depending on its version (the default of `sort` changed), so
\* both orders are outcomes of line 74.
UnionIndex(x1, x2, sorted) ==
  IF sorted THEN SortedSeq(IndexSet(x1) \cup IndexSet(x2))
  ELSE Index(x1) \o SelectSeq(Index(x2), LAMBDA t : t \notin IndexSet(x1))

CellsAt(x, t) ==
  IF t \in IndexSet(x)
  THEN x.rows[CHOOSE k \in 1..NRows(x) : x.rows[k].idx = t].c
  ELSE [j \in 1..Len(x.columns) |-> NaN]

concat(x1, x2, sorted) ==
  LET labels == UnionIndex(x1, x2, sorted)
  IN  [columns |-> x1.columns \o x2.columns,
       rows |-> [k \in 1..Len(labels) |->
                   [idx |-> labels[k],
                    c |-> CellsAt(x1, labels[k]) \o CellsAt(x2, labels[k])]]]

\* df.iloc[start:stop, :] selects rows by POSITION.
iloc(df, start, stop) == [columns |-> df.columns, rows |-> PySlice(df.rows, start, stop)]

\* df.fillna(0)
fillna0(df) ==
  [columns |-> df.columns,
   rows |-> [k \in 1..NRows(df) |->
               [idx |-> df.rows[k].idx,
                c |-> [j \in 1..Len(df.columns) |->
                         IF IsNaN(df.rows[k].c[j]) THEN Num(0) ELSE df.rows[k].c[j]]]]]

RECURSIVE SumCells(_)
SumCells(cells) ==
  IF cells = <<>> THEN 0
  ELSE (IF IsNaN(Head(cells)) THEN 0 ELSE Head(cells).num) + SumCells(Tail(cells))

CountCells(cells) == Cardinality({k \in 1..Len(cells) : ~IsNaN(cells[k])})

\* df.mean() of one column: the mean of its values that are not missing, and
\* NaN when all are missing.  Input cells are whole numbers (den = 1).
ColumnMean(df, j) ==
  IF CountCells(ColumnCells(df, j)) = 0 THEN NaN
  ELSE Frac(SumCells(ColumnCells(df, j)), CountCells(ColumnCells(df, j)))

\* df.fillna(df.mean())
fillnaMean(df) ==
  [columns |-> df.columns,
   rows |-> [k \in 1..NRows(df) |->
               [idx |-> df.rows[k].idx,
                c |-> [j \in 1..Len(df.columns) |->
                         IF IsNaN(df.rows[k].c[j]) THEN ColumnMean(df, j)
                         ELSE df.rows[k].c[j]]]]]

HasNaN(row) == \E j \in 1..Len(row.c) : IsNaN(row.c[j])

\* df.dropna(axis=0)
dropna(df) == [columns |-> df.columns, rows |-> SelectSeq(df.rows, LAMBDA r : ~HasNaN(r))]

\* ----------------------------------------------------- Alignment methods
\* Alignment.getOverlapData, lines 64-76.
getOverlapData(x1, x2, sorted) ==
  LET v1_min == SetMin(IndexSet(x1))
      v2_min == SetMin(IndexSet(x2))
      v1_max == SetMax(IndexSet(x1))
      v2_max == SetMax(IndexSet(x2))
      v_min == Max2(v1_min, v2_min)
      v_max == Min2(v1_max, v2_max)
      data_concat == concat(x1, x2, sorted)
  IN  iloc(data_concat, v_min, v_max + 1)

\* df.dropna(axis=0, how='all')
dropnaAll(df) ==
  [columns |-> df.columns,
   rows |-> SelectSeq(df.rows, LAMBDA r : \E j \in 1..Len(r.c) : ~IsNaN(r.c[j]))]

downsamplingHowAll(data_concat) == dropnaAll(data_concat)
\* Alignment.downsampling, lines 138-139.
downsampling(data_concat) == dropna(data_concat)

\* What a method call gives back: the value it returns, or the exception it
\* raises (err # ""), and what it printed on the way.
Returned(df) == [err |-> "", printed |-> <<>>, value |-> Some(df)]
Raised(e, printed) == [err |-> e, printed |-> printed, value |-> None]

AllNaNColumn(df) == \E j \in 1..Len(df.columns) : CountCells(ColumnCells(df, j)) = 0

\* KNNImputer(...).fit_transform(data_concat) wrapped in a new DataFrame,
\* lines 118-120.  sklearn rejects an array of 0 rows and drops a column
\* that holds no value, and then the DataFrame constructor rejects the
\* column names; the new DataFrame has the default index 0..n-1.
knnFrame(df) ==
  [columns |-> df.columns,
   rows |-> [k \in 1..NRows(df) |->
               [idx |-> k - 1,
                c |-> [j \in 1..Len(df.columns) |->
                         IF IsNaN(df.rows[k].c[j]) THEN KnnValue ELSE df.rows[k].c[j]]]]]

\* Alignment.upsampling, lines 114-125.
upsampling(data_concat, parameter) ==
  IF parameter.method = "knn"
  THEN IF NRows(data_concat) = 0 \/ AllNaNColumn(data_concat)
       THEN Raised("ValueError", <<>>)
       ELSE Returned(knnFrame(data_concat))
  ELSE IF parameter.method = "mean"
  THEN Returned(fillnaMean(data_concat))
  ELSE Raised("UnboundLocalError", <<"not imp">>)

\* ------------------------------------------------------------ DataLoader
\* torch.Tensor(np.array(windows)): every cell becomes a float32.  After
\* fillna(0) every cell is a whole number far below 2^24, which float32
\* holds exactly, so the tensor element is that number.
TensorCell(cell) == cell.num

\* data.values, line 197
Values(data) == [k \in 1..NRows(data) |-> data.rows[k].c]

\* data[i:i + window_size, :] as a tensor, line 202 (i is a 0-based position)
Window(values, i, window_size) ==
  LET rows == PySlice(values, i, i + window_size)
  IN  [r \in 1..Len(rows) |-> [j \in 1..Len(rows[r]) |-> TensorCell(rows[r][j])]]

\* range(n): the positions 0..n-1, none when n <= 0.
RangeLen(n) == IF n > 0 THEN n ELSE 0

\* The loop of lines 200-203.
Windows(values, window_size) ==
  [k \in 1..RangeLen(Len(values) - window_size) |-> Window(values, k - 1, window_size)]

DataLoader(dataset, batch_size, shuffle) ==
  [dataset |-> dataset, batch_size |-> batch_size, shuffle |-> shuffle]

NoLoader == DataLoader(<<>>, 0, FALSE)

\* line 207
TrainLoader(dataset, batch_size) == DataLoader(dataset, batch_size, TRUE)

InferenceLoaderShuffled(dataset, batch_size) == DataLoader(dataset, batch_size, TRUE)
\* line 208
InferenceLoader(dataset, batch_size) == DataLoader(dataset, batch_size, FALSE)

\* Alignment.get_loaders, lines 196-209.  A DataLoader with shuffle=True
\* builds a RandomSampler, which raises ValueError on a dataset of length 0
\* in the torch releases that check num_samples > 0 and accepts it in the
\* others: rejectsEmpty is that property of the installed torch.
get_loaders(data, window_size, batch_size, rejectsEmpty) ==
  LET windows == Windows(Values(data), window_size)
  IN  IF Len(windows) = 0 /\ rejectsEmpty
      THEN [err |-> "ValueError", train_loader |-> NoLoader, inference_loader |-> NoLoader]
      ELSE [err |-> "",
            train_loader |-> TrainLoader(windows, batch_size),
            inference_loader |-> InferenceLoader(windows, batch_size)]

Perms(n) == {f \in [1..n -> 1..n] : \A a, b \in 1..n : f[a] = f[b] => a = b}
Identity(n) == [k \in 1..n |-> k]

\* The orders in which one pass over the loader may visit the dataset:
\* RandomSampler (shuffle=True) draws any permutation, SequentialSampler
\* (shuffle=False) visits 0..n-1.
Orders(loader) ==
  IF loader.shuffle THEN Perms(Len(loader.dataset)) ELSE {Identity(Len(loader.dataset))}

NumBatches(n, b) == (n + b - 1) \div b

\* One pass over the loader: the batches it yields, each at most batch_size
\* dataset items, in the sampler's order.
Iterate(loader, order) ==
  LET n == Len(loader.dataset)
      b == loader.batch_size
  IN  [q \in 1..NumBatches(n, b) |->
         [r \in 1..Min2(b, n - (q - 1) * b) |-> loader.dataset[order[(q - 1) * b + r]]]]

RECURSIVE Flatten(_)
Flatten(batches) == IF batches = <<>> THEN <<>> ELSE Head(batches) \o Flatten(Tail(batches))

\* --------------------------------------------------------------- trainer
\* The weights train_model returns to the call of instance i.
Weights(i) == [kind |-> "weights", by |-> i]
Untrained == [kind |-> "untrained", by |-> 0]
Stale == [kind |-> "stale", by |-> 0]

\* models.train_model.get_representation: one embedding vector of emb_dim
\* numbers per window, in the order the loader yields the windows.
get_representation(model, batches, emb_dim) ==
  LET wins == Flatten(batches)
  IN  [k \in 1..Len(wins) |->
         [j \in 1..emb_dim |-> [tag |-> "emb", model |-> model, window |-> wins[k], dim |-> j]]]

\* ----------------------------------------------------------------- state
VARIABLES
  obj,      \* obj[i]: the fields of Alignment instance i (config, x1, x2, data_concat)
  call,     \* call[i]: the getResult call of instance i: position, locals, outcome
  fs,       \* the files under ./checkpoints: dir (exists) and files (path -> content)
  saveLog,  \* the instances whose torch.save ran, in the order they ran
  wb        \* a caller of get_loaders on its own: the table, the loaders, the passes

vars == <<obj, call, fs, saveLog, wb>>

Insts == {1, 2}

Parameter(method, n_neighbors, window_size, batch_size, emb_dim) ==
  [method |-> method, n_neighbors |-> n_neighbors, window_size |-> window_size,
   batch_size |-> batch_size, emb_dim |-> emb_dim, mode |-> "train"]

Config(model, parameter) == [model |-> model, parameter |-> parameter]

UpConfigs ==
  {Config("up", Parameter(m, n, 1, 1, 1)) : m \in {"knn", "mean", "median"}, n \in 1..MaxNeighbors}
DownConfigs == {Config("down", Parameter("mean", 1, 1, 1, 1))}
UnknownConfigs == {Config("unknown", Parameter("mean", 1, 1, 1, 1))}
RnnConfigs ==
  {Config("RNN_AE", Parameter("mean", 1, w, b, d)) :
     w \in 1..MaxWindow, b \in 1..MaxBatch, d \in 1..MaxEmb}
Configs == UpConfigs \cup DownConfigs \cup UnknownConfigs \cup RnnConfigs

EmptyFrame == [columns |-> <<>>, rows |-> <<>>]
NoObj == [config |-> Config("", Parameter("", 0, 0, 0, 0)),
          x1 |-> EmptyFrame, x2 |-> EmptyFrame, data_concat |-> EmptyFrame]

NoCall == [pc |-> "absent", err |-> "", printed |-> <<>>, result |-> None,
           train_loader |-> NoLoader, inference_loader |-> NoLoader,
           model |-> Untrained, trainOrder |-> <<>>, output |-> <<>>,
           trainerCalls |-> 0, inferCalls |-> 0, saves |-> 0]

NoFiles == [dir |-> FALSE, files |-> <<>>]

\* './checkpoints/best_model.pt', line 167: the same path for every instance.
CheckpointPathPerInstance(i) == "./checkpoints/best_model_" \o ToString(i) \o ".pt"
CheckpointPath(i) == "./checkpoints/best_model.pt"

\* A checkpoint left by an earlier run of the program.
StaleFiles == [dir |-> TRUE, files |-> [p \in {CheckpointPath(1)} |-> Stale]]

\* torch.save(model.state_dict(), path), line 167: creates or overwrites path.
torch_save(files, path, weights) ==
  [p \in (DOMAIN files) \cup {path} |-> IF p = path THEN weights ELSE files[p]]

WBIdle == [pc |-> "idle", data |-> EmptyFrame, window_size |-> 0, batch_size |-> 0,
           err |-> "", train_loader |-> NoLoader, inference_loader |-> NoLoader,
           runs |-> <<>>]

Init ==
  /\ obj = [i \in Insts |-> NoObj]
  /\ call = [i \in Insts |-> NoCall]
  /\ fs \in {NoFiles, StaleFiles}
  /\ saveLog = <<>>
  /\ wb = WBIdle

\* ------------------------------------------------------------- __init__
\* Alignment.__init__, lines 42-46: x1 and x2 are sorted tables with the
\* index labels S1 and S2.
ConstructWith(i, Tables, Cfgs) ==
  /\ call[i].pc = "absent"
  /\ \E S1 \in Tables, S2 \in Tables, cfg \in Cfgs, sorted \in BOOLEAN :
       LET x1 == InputTable(S1, "data1_col1", 10)
           x2 == InputTable(S2, "data2_col1", 20)
       IN  obj' = [obj EXCEPT ![i] = [config |-> cfg, x1 |-> x1, x2 |-> x2,
                                      data_concat |-> getOverlapData(x1, x2, sorted)]]
  /\ call' = [call EXCEPT ![i].pc = "ready"]
  /\ UNCHANGED <<fs, saveLog, wb>>

Construct(i) == ConstructWith(i, IndexSets, Configs)

\* ------------------------------------------------------------ getResult
Finish(i, r) ==
  call' = [call EXCEPT ![i].pc = IF r.err = "" THEN "done" ELSE "raised",
                       ![i].err = r.err,
                       ![i].printed = call[i].printed \o r.printed,
                       ![i].result = r.value]

\* getResult, lines 87-91 and 98, with upsampling.
GetResultUp(i) ==
  /\ call[i].pc = "ready"
  /\ obj[i].config.model = "up"
  /\ Finish(i, upsampling(obj[i].data_concat, obj[i].config.parameter))
  /\ UNCHANGED <<obj, fs, saveLog, wb>>

\* getResult, lines 87-93 and 98, with downsampling.
GetResultDown(i) ==
  /\ call[i].pc = "ready"
  /\ obj[i].config.model = "down"
  /\ Finish(i, Returned(downsampling(obj[i].data_concat)))
  /\ UNCHANGED <<obj, fs, saveLog, wb>>

\* getResult, lines 96-98: the else branch prints and falls through to
\* `return result`, where the local `result` was never assigned.
GetResultElse(i) ==
  /\ call[i].pc = "ready"
  /\ obj[i].config.model \notin {"up", "down", "RNN_AE"}
  /\ Finish(i, Raised("UnboundLocalError", <<"Not Available">>))
  /\ UNCHANGED <<obj, fs, saveLog, wb>>

\* --------------------------------------------------------------- RNN_AE
RnnNextInferFirst(step) ==
  CASE step = "loaders" -> "train"
    [] step = "train" -> "infer"
    [] step = "infer" -> "makedirs"
    [] step = "makedirs" -> "save"
    [] step = "save" -> "frame"
    [] step = "frame" -> "done"
\* The order of the statements of RNN_AE, lines 159-176.
RnnNext(step) ==
  CASE step = "loaders" -> "train"
    [] step = "train" -> "makedirs"
    [] step = "makedirs" -> "save"
    [] step = "save" -> "infer"
    [] step = "infer" -> "frame"
    [] step = "frame" -> "done"

\* getResult, lines 87-95, and RNN_AE, lines 155-159.
RnnLoaders(i) ==
  /\ call[i].pc = "ready"
  /\ obj[i].config.model = "RNN_AE"
  /\ \E rejectsEmpty \in BOOLEAN :
       LET parameter == obj[i].config.parameter
           r == get_loaders(fillna0(obj[i].data_concat), parameter.window_size,
                            parameter.batch_size, rejectsEmpty)
       IN  call' = [call EXCEPT ![i].pc = IF r.err = "" THEN RnnNext("loaders") ELSE "raised",
                                ![i].err = r.err,
                                ![i].train_loader = r.train_loader,
                                ![i].inference_loader = r.inference_loader]
  /\ UNCHANGED <<obj, fs, saveLog, wb>>

RnnTrainRetry(i, ok, order) ==
  call' = [call EXCEPT ![i].pc = IF ok THEN RnnNext("train") ELSE "train",
                       ![i].model = IF ok THEN Weights(i) ELSE Untrained,
                       ![i].trainOrder = order,
                       ![i].trainerCalls = Min2(call[i].trainerCalls + 1, 2)]
\* RNN_AE, lines 162-163: train_model returns the trained model, or raises,
\* and nothing in RNN_AE or getResult catches what it raises.
RnnTrainOutcome(i, ok, order) ==
  call' = [call EXCEPT ![i].pc = IF ok THEN RnnNext("train") ELSE "raised",
                       ![i].err = IF ok THEN "" ELSE "TrainerError",
                       ![i].model = IF ok THEN Weights(i) ELSE Untrained,
                       ![i].trainOrder = order,
                       ![i].trainerCalls = call[i].trainerCalls + 1]

RnnTrain(i) ==
  /\ call[i].pc = "train"
  /\ \E ok \in BOOLEAN, order \in Orders(call[i].train_loader) : RnnTrainOutcome(i, ok, order)
  /\ UNCHANGED <<obj, fs, saveLog, wb>>

\* RNN_AE, line 166: os.makedirs('./checkpoints', exist_ok=True)
RnnMakedirs(i) ==
  /\ call[i].pc = "makedirs"
  /\ fs' = [fs EXCEPT !.dir = TRUE]
  /\ call' = [call EXCEPT ![i].pc = RnnNext("makedirs")]
  /\ UNCHANGED <<obj, saveLog, wb>>

\* RNN_AE, line 167
RnnSave(i) ==
  /\ call[i].pc = "save"
  /\ fs.dir
  /\ fs' = [fs EXCEPT !.files = torch_save(fs.files, CheckpointPath(i), call[i].model)]
  /\ saveLog' = Append(saveLog, i)
  /\ call' = [call EXCEPT ![i].pc = RnnNext("save"), ![i].saves = call[i].saves + 1]
  /\ UNCHANGED <<obj, wb>>

\* RNN_AE, line 170
RnnInfer(i) ==
  /\ call[i].pc = "infer"
  /\ \E order \in Orders(call[i].inference_loader) :
       call' = [call EXCEPT
                  ![i].pc = RnnNext("infer"),
                  ![i].inferCalls = call[i].inferCalls + 1,
                  ![i].output = get_representation(call[i].model,
                                                   Iterate(call[i].inference_loader, order),
                                                   obj[i].config.parameter.emb_dim)]
  /\ UNCHANGED <<obj, fs, saveLog, wb>>

\* f'concat_emb{i}' for i in range(1, emb_dim + 1), line 173
data_col(emb_dim) == [j \in 1..emb_dim |-> "concat_emb" \o ToString(j)]

data_indexDropLast(data_concat, window_size) == PySlice(Index(data_concat), 0, 0 - window_size)
\* self.data_concat.index[window_size:], line 174
data_index(data_concat, window_size) == PySliceFrom(Index(data_concat), window_size)

\* pd.DataFrame(output, columns=..., index=...), line 175: raises ValueError
\* when the number of rows of output differs from the length of the index.
DataFrame(output, columns, index) ==
  IF Len(output) # Len(index) THEN Raised("ValueError", <<>>)
  ELSE Returned([columns |-> columns,
                 rows |-> [k \in 1..Len(output) |-> [idx |-> index[k], c |-> output[k]]]])

\* RNN_AE, lines 173-176, and getResult, line 98.
RnnFrame(i) ==
  /\ call[i].pc = "frame"
  /\ LET parameter == obj[i].config.parameter
     IN  Finish(i, DataFrame(call[i].output, data_col(parameter.emb_dim),
                             data_index(obj[i].data_concat, parameter.window_size)))
  /\ UNCHANGED <<obj, fs, saveLog, wb>>

Step(i) ==
  \/ Construct(i)
  \/ GetResultUp(i)
  \/ GetResultDown(i)
  \/ GetResultElse(i)
  \/ RnnLoaders(i)
  \/ RnnTrain(i)
  \/ RnnMakedirs(i)
  \/ RnnSave(i)
  \/ RnnInfer(i)
  \/ RnnFrame(i)

\* One Alignment instance, used by one caller (section 5: single-threaded).
Next == Step(1)

Spec == Init /\ [][Next]_vars

\* ------------------------------------------- concurrent Alignment instances
\* Two instances built with the embedding strategy run getResult in the
\* same working directory (threads of one process, or two processes); their
\* statements interleave.
ConcTables == {{0, 1, 2}, {0, 2}}
ConcConfigs == {Config("RNN_AE", Parameter("mean", 1, w, 1, 1)) : w \in {1, 2}}

ConstructEmbedding(i) == ConstructWith(i, ConcTables, ConcConfigs)

StepConc(i) ==
  \/ ConstructEmbedding(i)
  \/ RnnLoaders(i)
  \/ RnnTrain(i)
  \/ RnnMakedirs(i)
  \/ RnnSave(i)
  \/ RnnInfer(i)
  \/ RnnFrame(i)

NextConc == \E i \in Insts : StepConc(i)

SpecConc == Init /\ [][NextConc]_vars

\* ------------------------------------------------- get_loaders on its own
\* A gap-filled table of n rows and two columns; the rows differ, and the
\* second column of every other row is a filled gap (0).
GapFilled(n) ==
  [columns |-> <<"data1_col1", "data2_col1">>,
   rows |-> [k \in 1..n |->
               [idx |-> k - 1,
                c |-> <<Num(10 * k + 1), IF k % 2 = 0 THEN Num(0) ELSE Num(10 * k + 2)>>]]]

InitWB ==
  /\ obj = [i \in Insts |-> NoObj]
  /\ call = [i \in Insts |-> NoCall]
  /\ fs = NoFiles
  /\ saveLog = <<>>
  /\ wb \in {[WBIdle EXCEPT !.pc = "new", !.data = GapFilled(n),
                            !.window_size = w, !.batch_size = b] :
               n \in 0..MaxRows, w \in 1..MaxWindow, b \in 1..MaxBatch}

\* A call of get_loaders, lines 196-209.
WBGetLoaders ==
  /\ wb.pc = "new"
  /\ \E rejectsEmpty \in BOOLEAN :
       LET r == get_loaders(wb.data, wb.window_size, wb.batch_size, rejectsEmpty)
       IN  wb' = [wb EXCEPT !.pc = IF r.err = "" THEN "built" ELSE "raised",
                            !.err = r.err,
                            !.train_loader = r.train_loader,
                            !.inference_loader = r.inference_loader]
  /\ UNCHANGED <<obj, call, fs, saveLog>>

\* One full pass (for batch in loader) over one of the two loaders.
WBIterate ==
  /\ wb.pc = "built"
  /\ Len(wb.runs) < MaxIter
  /\ \E view \in {"train", "inference"} :
       LET loader == IF view = "train" THEN wb.train_loader ELSE wb.inference_loader
       IN  \E order \in Orders(loader) :
             wb' = [wb EXCEPT !.runs = Append(wb.runs,
                                 [view |-> view, batches |-> Iterate(loader, order)])]
  /\ UNCHANGED <<obj, call, fs, saveLog>>

NextWB == WBGetLoaders \/ WBIterate

SpecWB == InitWB /\ [][NextWB]_vars

\* ================================================================ claims
Known == {"up", "down", "RNN_AE"}
Constructed(i) == call[i].pc # "absent"
HasReturned(i) == call[i].pc = "done"
Ended(i) == call[i].pc \in {"done", "raised"}

LowerBound(i) == Max2(SetMin(IndexSet(obj[i].x1)), SetMin(IndexSet(obj[i].x2)))
UpperBound(i) == Min2(SetMax(IndexSet(obj[i].x1)), SetMax(IndexSet(obj[i].x2)))
DisjointRanges(i) == LowerBound(i) > UpperBound(i)
UnionOfIndices(i) == IndexSet(obj[i].x1) \cup IndexSet(obj[i].x2)
InBounds(i) == {t \in UnionOfIndices(i) : LowerBound(i) <= t /\ t <= UpperBound(i)}

\* C1 (as claimed): a call of getResult whose strategy identifier is none of
\* 'up', 'down', 'RNN_AE' ends by raising UnknownStrategyError, returns no
\* table and writes no checkpoint.
C1_UnknownStrategyError ==
  \A i \in Insts :
    (Ended(i) /\ obj[i].config.model \notin Known) =>
       /\ call[i].pc = "raised"
       /\ call[i].err = "UnknownStrategyError"
       /\ ~call[i].result.some
       /\ call[i].saves = 0

\* C2 (as claimed): when the index ranges of the two inputs are disjoint,
\* construction (getOverlapData) fails with EmptyOverlapError.
C2_EmptyOverlapError ==
  \A i \in Insts :
    (Constructed(i) /\ DisjointRanges(i)) => call[i].err = "EmptyOverlapError"

\* C3 (as claimed): for overlapping inputs, data_concat holds exactly the
\* rows of the outer join whose index VALUE lies in
\* [max(min1,min2), min(max1,max2)], each once.
C3_RowsByIndexValue ==
  \A i \in Insts :
    (Constructed(i) /\ ~DisjointRanges(i)) =>
       /\ IndexSet(obj[i].data_concat) = InBounds(i)
       /\ NRows(obj[i].data_concat) = Cardinality(InBounds(i))

\* The tables upsampling returns for data_concat under the two fill methods.
UpsampleOutputs(data_concat) ==
  {r.value.df : r \in {q \in {upsampling(data_concat, Parameter(m, n, 1, 1, 1)) :
                                 m \in {"knn", "mean"}, n \in 1..MaxNeighbors} : q.err = ""}}

FullyCoincident(i) ==
  \A t \in IndexSet(obj[i].data_concat) : t \in IndexSet(obj[i].x1) \cap IndexSet(obj[i].x2)

\* C4: for overlapping inputs, whenever getResult has returned an upsample
\* or a downsample output, rows(Downsample) <= rows(Upsample) <=
\* rows(OverlapTable), and the Downsample output has as many rows as the
\* Upsample output (so the three are equal) only when every index of the
\* overlap table is present in both inputs.
C4_RowCountOrder ==
  \A i \in Insts :
    (HasReturned(i) /\ ~DisjointRanges(i) /\ obj[i].config.model \in {"up", "down"}) =>
       LET overlap == obj[i].data_concat
           down == IF obj[i].config.model = "down" THEN call[i].result.df
                   ELSE downsampling(overlap)
           ups == IF obj[i].config.model = "up" THEN {call[i].result.df}
                  ELSE UpsampleOutputs(overlap)
       IN  \A up \in ups :
             /\ NRows(down) <= NRows(up)
             /\ NRows(up) <= NRows(overlap)
             /\ (NRows(down) = NRows(up)) => FullyCoincident(i)

C4_Witness ==
  \E i \in Insts :
    /\ HasReturned(i) /\ ~DisjointRanges(i) /\ obj[i].config.model = "down"
    /\ NRows(call[i].result.df) >= 1
    /\ NRows(call[i].result.df) < NRows(obj[i].data_concat)
    /\ UpsampleOutputs(obj[i].data_concat) # {}

\* Rows k..k+w-1 (0-based) of a table, as the numbers a window holds.
ExpectedWindow(data, k, w) ==
  [r \in 1..w |-> [j \in 1..Len(data.columns) |-> data.rows[k + r].c[j].num]]
ExpectedWindows(data, w) ==
  [q \in 1..(NRows(data) - w) |-> ExpectedWindow(data, q - 1, w)]

InferenceRuns == {q \in 1..Len(wb.runs) : wb.runs[q].view = "inference"}

\* C5: for a table of N rows and 0 < w < N, get_loaders returns loaders over
\* exactly N-w windows, window i being rows i..i+w-1, in the order of i; and
\* every pass over the inference loader yields these windows in that order,
\* in batches of at most batch_size, so two passes yield the same.
C5_WindowBuilder ==
  (wb.pc \in {"built", "raised"} /\ 0 < wb.window_size /\ wb.window_size < NRows(wb.data)) =>
     /\ wb.pc = "built"
     /\ Len(wb.inference_loader.dataset) = NRows(wb.data) - wb.window_size
     /\ wb.inference_loader.dataset = ExpectedWindows(wb.data, wb.window_size)
     /\ wb.train_loader.dataset = wb.inference_loader.dataset
     /\ \A q \in InferenceRuns :
          /\ Flatten(wb.runs[q].batches) = ExpectedWindows(wb.data, wb.window_size)
          /\ \A t \in 1..Len(wb.runs[q].batches) :
               Len(wb.runs[q].batches[t]) \in 1..wb.batch_size
     /\ \A q, t \in InferenceRuns : wb.runs[q].batches = wb.runs[t].batches

C5_Witness ==
  /\ wb.pc = "built"
  /\ NRows(wb.data) - wb.window_size >= 2
  /\ wb.window_size >= 2
  /\ Cardinality(InferenceRuns) >= 2

\* C6 (as claimed): with window_size >= rows of the table, get_loaders fails
\* with InvalidWindowSizeError and the trainer is not invoked.
C6_InvalidWindowSizeError ==
  \A i \in Insts :
    (/\ obj[i].config.model = "RNN_AE"
     /\ call[i].pc \notin {"absent", "ready"}
     /\ obj[i].config.parameter.window_size >= NRows(obj[i].data_concat)) =>
       /\ call[i].pc = "raised"
       /\ call[i].err = "InvalidWindowSizeError"
       /\ call[i].trainerCalls = 0

\* C7: a returned embedding-strategy call on a table of R rows with w < R
\* has R-w rows and the columns concat_emb1..concat_emb{d}; its index is the
\* table's index without its first w entries; row k (from 0) holds the
\* embedding, by the model this call trained, of the window of rows
\* k..k+w-1 of the gap-filled table, whatever order training visited.
C7_EmbeddingOutput ==
  \A i \in Insts :
    (/\ HasReturned(i) /\ obj[i].config.model = "RNN_AE"
     /\ obj[i].config.parameter.window_size < NRows(obj[i].data_concat)) =>
       LET w == obj[i].config.parameter.window_size
           d == obj[i].config.parameter.emb_dim
           R == NRows(obj[i].data_concat)
           out == call[i].result.df
       IN  /\ call[i].result.some
           /\ NRows(out) = R - w
           /\ Len(out.columns) = d
           /\ \A j \in 1..d : out.columns[j] = "concat_emb" \o ToString(j)
           /\ \A k \in 1..(R - w) :
                /\ out.rows[k].idx = obj[i].data_concat.rows[w + k].idx
                /\ \A j \in 1..d :
                     out.rows[k].c[j] =
                       [tag |-> "emb", model |-> Weights(i), dim |-> j,
                        window |-> ExpectedWindow(fillna0(obj[i].data_concat), k - 1, w)]

C7_Witness ==
  \E i \in Insts :
    /\ HasReturned(i) /\ obj[i].config.model = "RNN_AE"
    /\ NRows(call[i].result.df) >= 2
    /\ obj[i].config.parameter.window_size >= 2
    /\ obj[i].config.parameter.emb_dim >= 2
    /\ call[i].trainOrder # Identity(Len(call[i].trainOrder))

CheckpointHolds(weights) ==
  /\ fs.dir
  /\ "./checkpoints/best_model.pt" \in DOMAIN fs.files
  /\ fs.files["./checkpoints/best_model.pt"] = weights

\* C8: in an embedding-strategy call, training comes first, then the
\* checkpoint directory and file are written, then inference runs: before
\* the write neither a save nor an inference of this call has happened, and
\* from the start of inference until the call has returned the checkpoint
\* holds the weights this call trained.
C8_TrainSaveInfer ==
  \A i \in Insts :
    (Constructed(i) /\ obj[i].config.model = "RNN_AE" /\ call[i].err = "") =>
       /\ call[i].pc \in {"ready", "train"} =>
            call[i].trainerCalls = 0 /\ call[i].saves = 0 /\ call[i].inferCalls = 0
       /\ call[i].pc \in {"makedirs", "save"} =>
            /\ call[i].trainerCalls = 1 /\ call[i].model = Weights(i)
            /\ call[i].saves = 0 /\ call[i].inferCalls = 0
       /\ call[i].pc \in {"infer", "frame", "done"} =>
            /\ call[i].trainerCalls = 1 /\ call[i].model = Weights(i)
            /\ call[i].saves = 1
            /\ call[i].inferCalls = (IF call[i].pc = "infer" THEN 0 ELSE 1)
            /\ CheckpointHolds(Weights(i))

C8_Witness ==
  \E i \in Insts :
    /\ HasReturned(i) /\ obj[i].config.model = "RNN_AE" /\ call[i].result.some
    /\ NRows(call[i].result.df) >= 1
    /\ CheckpointHolds(Weights(i))

TrainerFailed(i) == call[i].trainerCalls >= 1 /\ call[i].model = Untrained

\* C9: when the trainer fails, the call of getResult ends by raising that
\* failure: the trainer was invoked once, and this call wrote no checkpoint
\* (the files are as they were before the call), ran no inference and
\* returned no table.
C9_TrainerFailurePropagates ==
  \A i \in Insts :
    TrainerFailed(i) =>
       /\ call[i].pc = "raised"
       /\ call[i].err = "TrainerError"
       /\ call[i].trainerCalls = 1
       /\ call[i].saves = 0
       /\ call[i].inferCalls = 0
       /\ ~call[i].result.some
       /\ saveLog = <<>>
       /\ fs \in {NoFiles, StaleFiles}

C9_Witness ==
  \E i \in Insts :
    /\ call[i].err = "TrainerError"
    /\ Len(call[i].train_loader.dataset) >= 2
    /\ fs = StaleFiles

\* C10: every instance saves to the one path ./checkpoints/best_model.pt, so
\* once any instance has saved, that file is the only checkpoint and holds
\* the weights of the instance that saved last; an instance that has
\* returned may find the other instance's weights there (C10_Witness).
C10_LastWriterWins ==
  saveLog # <<>> =>
     /\ DOMAIN fs.files = {"./checkpoints/best_model.pt"}
     /\ fs.files["./checkpoints/best_model.pt"] = Weights(saveLog[Len(saveLog)])

C10_Witness ==
  /\ call[1].pc = "done" /\ call[1].err = "" /\ call[1].result.some
  /\ call[1].saves = 1
  /\ CheckpointHolds(Weights(2))

====
